---- MODULE Spec2Model ----
(***************************************************************************)
(* A model of memento.py, a menu-driven vocabulary trainer: the in-memory  *)
(* word store and the persisted word document, CSV export and import, the  *)
(* prefix filter of the word list, the quiz session with its retry rounds  *)
(* and the statistics ledger.                                              *)
(*                                                                         *)
(* Text is modelled as a sequence of one-character strings, so that        *)
(* str.lower, str.strip and str.startswith are computed character by       *)
(* character.  A dict is modelled as the sequence of its (key, value)      *)
(* pairs in insertion order, which is what Python's dict iterates.         *)
(***************************************************************************)
EXTENDS Integers, Sequences, FiniteSets, TLC

(***************************************************************************)
(* Bounds of the model.                                                    *)
(***************************************************************************)
\* the largest number of entries the store sessions let the store grow to
MaxStore == 2
\* the largest length the filter of the word list may grow to
MaxFilter == 3
\* new quiz runs start only while the ledger holds fewer results than this
MaxLedger == 1
\* the latest reading of the wall clock
MaxClock == 1
\* the deepest nesting of retry rounds
MaxDepth == 3

(***************************************************************************)
(* Program constants.                                                      *)
(***************************************************************************)
\* quiz(): quiz_size = 15 when the size prompt is answered with a blank line
DefaultQuizSize == 15

(***************************************************************************)
(* Text.                                                                   *)
(***************************************************************************)
CR == "\r"
LF == "\n"

\* the characters str.strip() removes, among the characters the model uses
Whitespace == {" ", "\t", CR, LF}

\* the upper-case letters the model uses, with their lower-case forms
UpperCase == {"A", "B", "C", "E", "I", "L", "M", "N", "R", "S", "T", "U", "X", "Y"}

LowerOf(c) ==
    CASE c = "A" -> "a" [] c = "B" -> "b" [] c = "C" -> "c" [] c = "E" -> "e"
      [] c = "I" -> "i" [] c = "L" -> "l" [] c = "M" -> "m" [] c = "N" -> "n"
      [] c = "R" -> "r" [] c = "S" -> "s" [] c = "T" -> "t" [] c = "U" -> "u"
      [] c = "X" -> "x" [] c = "Y" -> "y"

\* str.lower(), one character
LowerChar(c) == IF c \in UpperCase THEN LowerOf(c) ELSE c

\* str.lower()
Lower(s) == [i \in 1..Len(s) |-> LowerChar(s[i])]

\* str.lstrip()
RECURSIVE LStrip(_)
LStrip(s) ==
    IF s # <<>> /\ Head(s) \in Whitespace THEN LStrip(Tail(s)) ELSE s

\* str.rstrip()
RECURSIVE RStrip(_)
RStrip(s) ==
    IF s # <<>> /\ s[Len(s)] \in Whitespace
    THEN RStrip(SubSeq(s, 1, Len(s) - 1))
    ELSE s

\* str.strip()
Strip(s) == RStrip(LStrip(s))

\* str.startswith(prefix)
StartsWith(s, prefix) ==
    /\ Len(prefix) <= Len(s)
    /\ SubSeq(s, 1, Len(prefix)) = prefix

\* s[:-1]
DropLast(s) == IF s = <<>> THEN s ELSE SubSeq(s, 1, Len(s) - 1)

Min(a, b) == IF a <= b THEN a ELSE b

\* a maximum that forgets its first argument
Latest(a, b) == b

Max(a, b) == IF a >= b THEN a ELSE b

\* the literals the code compares its input with
TxtMain == <<"m", "a", "i", "n">>
TxtExit == <<"e", "x", "i", "t">>
TxtMenu == <<"m", "e", "n", "u">>
TxtClear == <<"c", "l", "e", "a", "r">>
TxtYes == <<"y", "e", "s">>
TxtWord == <<"W", "o", "r", "d">>
TxtDefinition == <<"D", "e", "f", "i", "n", "i", "t", "i", "o", "n">>

(***************************************************************************)
(* dict: the sequence of its <<key, value>> pairs in insertion order.      *)
(***************************************************************************)
\* dict.keys(), as a set
Keys(d) == {d[i][1] : i \in 1..Len(d)}

\* key in d
Has(d, k) == k \in Keys(d)

\* the position of key k in d
IndexOf(d, k) == CHOOSE i \in 1..Len(d) : d[i][1] = k

\* d[k]
Get(d, k) == d[IndexOf(d, k)][2]

\* d[k] = v: an existing key keeps its place, a new key goes last
Put(d, k, v) ==
    IF Has(d, k)
    THEN [d EXCEPT ![IndexOf(d, k)] = <<k, v>>]
    ELSE Append(d, <<k, v>>)

\* del d[k]
Del(d, k) ==
    LET i == IndexOf(d, k)
    IN  SubSeq(d, 1, i - 1) \o SubSeq(d, i + 1, Len(d))

\* the mapping a dict holds, whatever the order of its entries
Mapping(d) == {d[i] : i \in 1..Len(d)}

\* a sequence of pairs is a dict when no key occurs twice
IsDict(d) == \A i, j \in 1..Len(d) : d[i][1] = d[j][1] => i = j

\* random.shuffle(seq): every arrangement of seq
Shuffles(seq) ==
    {[i \in 1..Len(seq) |-> seq[p[i]]] : p \in Permutations(1..Len(seq))}

(***************************************************************************)
(* The persisted documents.  data/words.json holds the dict json.dump      *)
(* wrote; a missing file loads as the empty dict.  data/stats.json holds   *)
(* the ledger; a missing file loads as the default ledger.                 *)
(***************************************************************************)
\* load_words(): the document's dict
load_words(doc) == doc

\* save_words(words): the document after json.dump(words, f)
save_words(w) == w

\* load_stats(): the default ledger of a missing data/stats.json; a date of 0
\* stands for None
DefaultStats ==
    [total_quizzes |-> 0, words_learned |-> 0, quiz_results |-> <<>>,
     last_quiz_date |-> 0]

\* "percentage": (correct_count / total_words) * 100 if total_words > 0 else 0,
\* kept as the exact fraction <<numerator, denominator>>
Percentage(correct, total) ==
    IF total > 0 THEN <<correct * 100, total>> ELSE <<0, 1>>

\* a result whose total counts one word more than were attempted
QuizResultMiscounted(date, correct, total, attempted) ==
    [date |-> date, score |-> correct, total |-> total + 1,
     percentage |-> Percentage(correct, total + 1),
     words_attempted |-> attempted]

\* the quiz_result dict update_stats builds; words_attempted is the list made
\* of a set, which holds each word once in no particular order
QuizResult(date, correct, total, attempted) ==
    [date |-> date, score |-> correct, total |-> total,
     percentage |-> Percentage(correct, total), words_attempted |-> attempted]

\* an update that appends the result and leaves the counter as it was
update_stats_uncounted(st, date, correct, total, attempted) ==
    [total_quizzes |-> st.total_quizzes,
     words_learned |-> Max(st.words_learned, correct),
     quiz_results |-> Append(st.quiz_results,
                             QuizResult(date, correct, total, attempted)),
     last_quiz_date |-> date]

\* update_stats(correct_count, total_words, words_attempted): the ledger it
\* saves, given the ledger it loaded and the clock's reading
update_stats(st, date, correct, total, attempted) ==
    [total_quizzes |-> st.total_quizzes + 1,
     words_learned |-> Max(st.words_learned, correct),
     quiz_results |-> Append(st.quiz_results,
                             QuizResult(date, correct, total, attempted)),
     last_quiz_date |-> date]

(***************************************************************************)
(* CSV files of the data directory: a file is the sequence of its rows,    *)
(* each row the sequence of its fields, as csv.writer writes and           *)
(* csv.reader reads them.                                                  *)
(***************************************************************************)
NoFile == [exists |-> FALSE, rows |-> <<>>]

FileOf(rows) == [exists |-> TRUE, rows |-> rows]

\* an export that writes each row's definition before its word
ExportRowsSwapped(w) ==
    <<<<TxtWord, TxtDefinition>>>> \o [i \in 1..Len(w) |-> <<w[i][2], w[i][1]>>]

\* export_words_to_csv: the rows written, the header first (the file is
\* opened with newline="", so the fields are written as they are)
ExportRows(w) ==
    <<<<TxtWord, TxtDefinition>>>> \o [i \in 1..Len(w) |-> <<w[i][1], w[i][2]>>]

\* open(file_path, "r") without newline="": text mode turns "\r\n" and a
\* lone "\r" into "\n", inside quoted fields too
RECURSIVE UniversalNewlines(_)
UniversalNewlines(s) ==
    IF s = <<>> THEN <<>>
    ELSE IF Head(s) = CR
         THEN IF Len(s) > 1 /\ s[2] = LF
              THEN <<LF>> \o UniversalNewlines(Tail(Tail(s)))
              ELSE <<LF>> \o UniversalNewlines(Tail(s))
         ELSE <<Head(s)>> \o UniversalNewlines(Tail(s))

\* the rows csv.DictReader reads from the file
ReadRows(rows) ==
    [i \in 1..Len(rows) |->
        [j \in 1..Len(rows[i]) |-> UniversalNewlines(rows[i][j])]]

\* row[name] of csv.DictReader: the field under the last column called name
HasField(header, row, name) ==
    \E i \in 1..Len(header) : header[i] = name /\ i <= Len(row)

FieldOf(header, row, name) ==
    LET i == CHOOSE i \in 1..Len(header) :
                 /\ header[i] = name
                 /\ \A j \in 1..Len(header) : header[j] = name => j <= i
    IN  row[i]

\* if word and definition: both are non-empty after .strip()
ValidRow(w, d) == w # <<>> /\ d # <<>>

\* the loop over the reader's rows: acc is [words, imported_count, failed];
\* a row that lacks a column gives None, whose .strip() raises
RECURSIVE ImportLoop(_, _, _, _)
ImportLoop(acc, header, rows, i) ==
    IF i > Len(rows) \/ acc.failed THEN acc
    ELSE IF ~(HasField(header, rows[i], TxtWord)
              /\ HasField(header, rows[i], TxtDefinition))
         THEN [acc EXCEPT !.failed = TRUE]
         ELSE LET w == Strip(FieldOf(header, rows[i], TxtWord))
                  d == Strip(FieldOf(header, rows[i], TxtDefinition))
              IN  ImportLoop(
                      IF ValidRow(w, d)
                      THEN [acc EXCEPT !.words = Put(acc.words, w, d),
                                       !.imported_count = acc.imported_count + 1]
                      ELSE acc,
                      header, rows, i + 1)

\* an import that saves what it has merged when a row makes it fail
import_words_from_csv_partial(doc, file) ==
    LET rows == ReadRows(file.rows)
        keep(text) == [text |-> text, doc |-> doc, imported_count |-> 0,
                       new_words_added |-> 0]
    IN  IF ~file.exists THEN keep("FileNotFound")
        ELSE IF rows = <<>> THEN keep("UnexpectedError")
        ELSE IF ~({TxtWord, TxtDefinition} \subseteq
                      {rows[1][j] : j \in 1..Len(rows[1])})
        THEN keep("BadHeader")
        ELSE LET acc == ImportLoop(
                            [words |-> load_words(doc), imported_count |-> 0,
                             failed |-> FALSE],
                            rows[1], rows, 2)
             IN  [text |-> IF acc.failed THEN "UnexpectedError"
                           ELSE IF acc.imported_count > 0
                           THEN "Imported" ELSE "NoValidWords",
                  doc |-> save_words(acc.words),
                  imported_count |-> acc.imported_count,
                  new_words_added |-> Len(acc.words) - Len(doc)]

\* import_words_from_csv(), from the file name on: what it reports, the
\* document it leaves, and its two counts
import_words_from_csv(doc, file) ==
    LET loaded == load_words(doc)
        rows == ReadRows(file.rows)
        keep(text) == [text |-> text, doc |-> doc, imported_count |-> 0,
                       new_words_added |-> 0]
    IN  IF ~file.exists THEN keep("FileNotFound")
        ELSE IF rows = <<>> THEN keep("UnexpectedError")
        ELSE IF ~({TxtWord, TxtDefinition} \subseteq
                      {rows[1][j] : j \in 1..Len(rows[1])})
        THEN keep("BadHeader")
        ELSE LET acc == ImportLoop(
                            [words |-> loaded, imported_count |-> 0,
                             failed |-> FALSE],
                            rows[1], rows, 2)
             IN  IF acc.failed THEN keep("UnexpectedError")
                 ELSE [text |-> IF acc.imported_count > 0
                                THEN "Imported" ELSE "NoValidWords",
                       doc |-> save_words(acc.words),
                       imported_count |-> acc.imported_count,
                       new_words_added |-> Len(acc.words) - Len(loaded)]

(***************************************************************************)
(* The state of the program.                                               *)
(***************************************************************************)
VARIABLES
    pc,                \* the prompt the program waits at, or "exited"
    words,             \* main(): the in-memory word store
    disk,              \* data/words.json
    csv,               \* the CSV file of the data directory
    stats,             \* data/stats.json
    msg,               \* the report printed since the last menu choice
    word,              \* add_word(): the word whose definition is asked
    current_filter,    \* view_words(): the filter typed so far
    retry_mode,        \* quiz(): whether the session is a retry round
    word_definitions,  \* quiz(): the pool of the session
    total_words,       \* quiz(): the size of the pool, as the progress bar shows it
    index,             \* quiz(): the position of the question asked
    incorrect_words,   \* quiz(): the entries answered wrongly
    correct_count,     \* quiz(): the number of correct answers
    words_attempted,   \* quiz(): the words answered
    depth              \* the number of quiz() frames on the call stack

vars == <<pc, words, disk, csv, stats, msg, word, current_filter, retry_mode,
          word_definitions, total_words, index, incorrect_words, correct_count,
          words_attempted, depth>>

store_vars == <<words, disk>>
add_vars == <<word>>
view_vars == <<current_filter>>
session_vars == <<word_definitions, total_words, index, incorrect_words,
                  correct_count, words_attempted>>
quiz_vars == <<retry_mode, session_vars, depth>>

\* a report, with the two counts the import report carries
Msg(text) == [text |-> text, n |-> 0, m |-> 0]

NoMsg == Msg("")

\* the prompts input() waits at
Prompts ==
    {"menu", "add_word", "add_definition", "add_continue", "view_words",
     "delete_word", "export", "import", "quiz_size", "quiz_answer",
     "quiz_retry", "pause"}

(***************************************************************************)
(* What the user types, and what the data directory holds at start.        *)
(***************************************************************************)
\* the words and definitions typed at the prompts of Add Word
AddWords == {<<"a">>, <<"b">>, <<>>, TxtMain, <<"M", "a", "i", "n">>}
AddDefinitions == {<<"x">>, <<"y">>}
AddContinues == {TxtYes, <<>>, TxtMain, <<"M", "A", "I", "N">>}

\* the words typed at the prompt of Delete Word
DeleteWords == {<<"a">>, <<"b">>, <<>>, <<"A">>}

\* the file names typed at the prompts of Export and Import
CsvName == "list.csv"
FileNames == {CsvName, "none.csv"}

\* the file of that name in the data directory
FileAt(name) == IF name = CsvName THEN csv ELSE NoFile

\* CSV files written by hand
HandFiles ==
    { FileOf(<< <<TxtWord, TxtDefinition>>,
                <<<<"a">>, <<"y">>>>,
                <<<<>>, <<"x">>>>,
                <<<<" ", "b", " ">>, <<"x">>>> >>),
      FileOf(<< <<TxtDefinition, TxtWord>>,
                <<<<"x">>, <<"b">>>>,
                <<<<" ">>, <<"a">>>> >>),
      FileOf(<< <<TxtWord, <<"M", "e", "a", "n", "i", "n", "g">>>>,
                <<<<"a">>, <<"y">>>> >>),
      FileOf(<< <<TxtWord, TxtDefinition>>,
                <<<<"b">>, <<"y">>>>,
                <<<<"a">>>> >>) }

\* the word documents earlier runs of the store sessions left
StartDocs == {<<>>, << <<<<"a">>, <<"x">>>> >>}

(***************************************************************************)
(* main(): the start, and the menu.                                        *)
(***************************************************************************)
\* main() up to the first prompt: words = load_words()
Start(doc, file) ==
    /\ pc = "menu"
    /\ disk = doc
    /\ words = load_words(doc)
    /\ csv = file
    /\ stats = DefaultStats
    /\ msg = NoMsg
    /\ word = <<>>
    /\ current_filter = <<>>
    /\ retry_mode = FALSE
    /\ word_definitions = <<>>
    /\ total_words = 0
    /\ index = 0
    /\ incorrect_words = <<>>
    /\ correct_count = 0
    /\ words_attempted = {}
    /\ depth = 0

\* choice == "8"
choose_exit ==
    /\ pc = "menu"
    /\ pc' = "exited"
    /\ msg' = Msg("Goodbye")
    /\ UNCHANGED <<store_vars, csv, stats, add_vars, view_vars, quiz_vars>>

\* any other choice
choose_invalid ==
    /\ pc = "menu"
    /\ pc' = "menu"
    /\ msg' = Msg("InvalidChoice")
    /\ UNCHANGED <<store_vars, csv, stats, add_vars, view_vars, quiz_vars>>

\* input("Press Enter to continue...") after choices 2, 5, 6 and 7
pause_enter ==
    /\ pc = "pause"
    /\ pc' = "menu"
    /\ UNCHANGED <<store_vars, csv, stats, msg, add_vars, view_vars, quiz_vars>>

\* KeyboardInterrupt at a prompt: sys.exit(0)
interrupt ==
    /\ pc \in Prompts
    /\ pc' = "exited"
    /\ msg' = Msg("Terminated")
    /\ UNCHANGED <<store_vars, csv, stats, add_vars, view_vars, quiz_vars>>

(***************************************************************************)
(* add_word(words)                                                         *)
(***************************************************************************)
\* choice == "1"
choose_add ==
    /\ pc = "menu"
    /\ pc' = "add_word"
    /\ msg' = NoMsg
    /\ UNCHANGED <<store_vars, csv, stats, add_vars, view_vars, quiz_vars>>

\* the loop of add_word is left: save_words(words), back to the menu
AddReturn ==
    /\ disk' = save_words(words)
    /\ pc' = "menu"
    /\ UNCHANGED <<words, word>>

\* word = input("Enter the word ...")
add_word_word(w) ==
    /\ pc = "add_word"
    /\ Lower(w) # TxtMain => (Has(words, w) \/ Len(words) < MaxStore)
    /\ IF Lower(w) = TxtMain
       THEN AddReturn
       ELSE /\ word' = w
            /\ pc' = "add_definition"
            /\ UNCHANGED <<words, disk>>
    /\ UNCHANGED <<csv, stats, msg, view_vars, quiz_vars>>

\* an insertion that keeps the definition a word already has
AddEntryKeepsOld(w, k, d) == IF Has(w, k) THEN w ELSE Append(w, <<k, d>>)

\* the store after words[word] = definition
AddEntry(w, k, d) == Put(w, k, d)

\* definition = input(...); words[word] = definition
add_word_definition(d) ==
    /\ pc = "add_definition"
    /\ words' = AddEntry(words, word, d)
    /\ msg' = Msg("Added")
    /\ pc' = "add_continue"
    /\ UNCHANGED <<disk, csv, stats, word, view_vars, quiz_vars>>

\* continue_adding = input("Do you want to add another word? ...")
add_word_continue(c) ==
    /\ pc = "add_continue"
    /\ IF Lower(c) = TxtMain
       THEN AddReturn
       ELSE /\ pc' = "add_word"
            /\ UNCHANGED <<words, disk, word>>
    /\ UNCHANGED <<csv, stats, msg, view_vars, quiz_vars>>

(***************************************************************************)
(* delete_word(words)                                                      *)
(***************************************************************************)
\* choice == "4"
choose_delete ==
    /\ pc = "menu"
    /\ IF words = <<>>
       THEN pc' = "menu" /\ msg' = Msg("NoWordsToDelete")
       ELSE pc' = "delete_word" /\ msg' = NoMsg
    /\ UNCHANGED <<store_vars, csv, stats, add_vars, view_vars, quiz_vars>>

\* if word_to_delete in words
DeleteFinds(w, k) == Has(w, k)

\* a deletion that removes the first entry, whatever the key
DeleteFirstEntry(w, k) == Tail(w)

\* the store after del words[word_to_delete]
DeleteEntry(w, k) == Del(w, k)

\* word_to_delete = input("Enter the word you want to delete: ")
delete_word_word(w) ==
    /\ pc = "delete_word"
    /\ IF DeleteFinds(words, w)
       THEN /\ words' = DeleteEntry(words, w)
            /\ msg' = Msg("Deleted")
            /\ disk' = save_words(words')
       ELSE /\ msg' = Msg("NotFound")
            /\ UNCHANGED <<words, disk>>
    /\ pc' = "menu"
    /\ UNCHANGED <<csv, stats, add_vars, view_vars, quiz_vars>>

(***************************************************************************)
(* export_words_to_csv(words) and import_words_from_csv()                  *)
(***************************************************************************)
\* choice == "5"
choose_export ==
    /\ pc = "menu"
    /\ IF words = <<>>
       THEN pc' = "pause" /\ msg' = Msg("NoWordsToExport")
       ELSE pc' = "export" /\ msg' = NoMsg
    /\ UNCHANGED <<store_vars, csv, stats, add_vars, view_vars, quiz_vars>>

\* filename = input("Enter a filename ...") + ".csv"
export_words_to_csv ==
    /\ pc = "export"
    /\ csv' = FileOf(ExportRows(words))
    /\ msg' = Msg("Exported")
    /\ pc' = "pause"
    /\ UNCHANGED <<store_vars, stats, add_vars, view_vars, quiz_vars>>

\* choice == "6"
choose_import ==
    /\ pc = "menu"
    /\ pc' = "import"
    /\ msg' = NoMsg
    /\ UNCHANGED <<store_vars, csv, stats, add_vars, view_vars, quiz_vars>>

\* filename = input("Enter the filename ...") and the rest of the function;
\* the store of main() is not among the things it touches
import_csv(name) ==
    /\ pc = "import"
    /\ LET r == import_words_from_csv(disk, FileAt(name))
       IN  /\ disk' = r.doc
           /\ msg' = [text |-> r.text, n |-> r.imported_count,
                      m |-> r.new_words_added]
    /\ pc' = "pause"
    /\ UNCHANGED <<words, csv, stats, add_vars, view_vars, quiz_vars>>

(***************************************************************************)
(* The store session: Add Word, Delete Word and Import, from the word      *)
(* document and the CSV file the data directory holds at start.            *)
(***************************************************************************)
Init == \E doc \in StartDocs, file \in HandFiles \cup {NoFile} : Start(doc, file)

Next ==
    \/ choose_add
    \/ \E w \in AddWords : add_word_word(w)
    \/ \E d \in AddDefinitions : add_word_definition(d)
    \/ \E c \in AddContinues : add_word_continue(c)
    \/ choose_delete
    \/ \E w \in DeleteWords : delete_word_word(w)
    \/ choose_import
    \/ \E name \in FileNames : import_csv(name)
    \/ pause_enter
    \/ choose_invalid
    \/ choose_exit
    \/ interrupt

Spec == Init /\ [][Next]_vars

(***************************************************************************)
(* The CSV session: Export, Import and Delete Word, from any word store    *)
(* earlier runs may have left.                                             *)
(***************************************************************************)
\* the words and definitions of the stores the CSV session starts from
CsvWords == {<<"a">>, <<"b">>, <<" ", "a">>, <<>>}
CsvDefinitions == {<<"x">>, <<"y">>, <<"x", " ">>, <<>>, <<"x", CR, "y">>}

\* every dict of at most n entries over the given keys and values
RECURSIVE Dicts(_, _, _)
Dicts(keys, values, n) ==
    IF n = 0 THEN {<<>>}
    ELSE LET shorter == Dicts(keys, values, n - 1)
             longest == {d \in shorter : Len(d) = n - 1}
             grown == {Append(d, <<k, v>>) :
                          d \in longest, k \in keys, v \in values}
         IN  shorter \cup {d \in grown : IsDict(d)}

InitCsv == \E doc \in Dicts(CsvWords, CsvDefinitions, MaxStore) : Start(doc, NoFile)

NextCsv ==
    \/ choose_export
    \/ export_words_to_csv
    \/ choose_import
    \/ \E name \in FileNames : import_csv(name)
    \/ choose_delete
    \/ \E w \in CsvWords : delete_word_word(w)
    \/ pause_enter

SpecCsv == InitCsv /\ [][NextCsv]_vars

(***************************************************************************)
(* view_words(words)                                                       *)
(***************************************************************************)
\* word.lower().startswith(current_filter.lower())
Matches(w, f) == StartsWith(Lower(w), Lower(f))

\* any(word.lower().startswith(current_filter.lower()) for word in words)
AnyMatch(d, f) == \E i \in 1..Len(d) : Matches(d[i][1], f)

\* filtered_words: the entries the list shows, in the store's order
FilteredWords(d, f) == SelectSeq(d, LAMBDA e : Matches(e[1], f))

\* choice == "2"
choose_view ==
    /\ pc = "menu"
    /\ IF words = <<>>
       THEN /\ pc' = "pause"
            /\ msg' = Msg("NoWordsAvailable")
            /\ UNCHANGED current_filter
       ELSE /\ pc' = "view_words"
            /\ msg' = NoMsg
            /\ current_filter' = <<>>
    /\ UNCHANGED <<store_vars, csv, stats, add_vars, quiz_vars>>

\* the filter after the input: cleared by 'clear', else the input appended
Typed(f, user_input) ==
    IF user_input = TxtClear THEN <<>> ELSE f \o user_input

\* the filter the loop goes on with: without its last character when no
\* word matches
Settled(d, f) == IF ~AnyMatch(d, f) THEN DropLast(f) ELSE f

\* user_input = input("    Input: ").lower()
view_words_input(u) ==
    /\ pc = "view_words"
    /\ LET user_input == Lower(u)
           typed == Typed(current_filter, user_input)
       IN  /\ Len(typed) <= MaxFilter
           /\ IF user_input = <<>>
              THEN /\ pc' = "pause"
                   /\ UNCHANGED <<current_filter, msg>>
              ELSE /\ pc' = "view_words"
                   /\ current_filter' = Settled(words, typed)
                   /\ msg' = IF ~AnyMatch(words, typed)
                             THEN Msg("NoMatch") ELSE NoMsg
    /\ UNCHANGED <<store_vars, csv, stats, add_vars, quiz_vars>>

(***************************************************************************)
(* The view session: View Words over a store earlier runs left.            *)
(***************************************************************************)
\* what is typed at the filter prompt
FilterInputs ==
    {<<>>, <<"a">>, <<"A">>, <<"b">>, <<"c">>, <<"x">>, <<"a", "b">>,
     <<"x", "y">>, <<"b", "x">>, TxtClear, <<"C", "l", "e", "a", "r">>}

ViewStores ==
    { <<>>,
      << <<<<"a", "b">>, <<"x">>>> >>,
      << <<<<"A", "b">>, <<"x">>>>, <<<<"b">>, <<"y">>>> >>,
      << <<<<"b">>, <<"y">>>>, <<<<"a", "b", "c">>, <<"x">>>>,
         <<<<"a", "B">>, <<"x">>>> >> }

InitView == \E doc \in ViewStores : Start(doc, NoFile)

NextView ==
    \/ choose_view
    \/ \E u \in FilterInputs : view_words_input(u)
    \/ pause_enter
    \/ interrupt

SpecView == InitView /\ [][NextView]_vars

(***************************************************************************)
(* quiz(words, retry_mode, retry_words) and view_stats()                   *)
(***************************************************************************)
Digits == {"0", "1", "2", "3", "4", "5", "6", "7", "8", "9"}

DigitValue(c) ==
    CASE c = "0" -> 0 [] c = "1" -> 1 [] c = "2" -> 2 [] c = "3" -> 3
      [] c = "4" -> 4 [] c = "5" -> 5 [] c = "6" -> 6 [] c = "7" -> 7
      [] c = "8" -> 8 [] c = "9" -> 9

\* the sign and the digits of the text int() is given
Signed(s) == Strip(s) # <<>> /\ Head(Strip(s)) \in {"+", "-"}
DigitsOf(s) == IF Signed(s) THEN Tail(Strip(s)) ELSE Strip(s)

\* int(user_input) does not raise ValueError
IsInt(s) ==
    /\ DigitsOf(s) # <<>>
    /\ \A i \in 1..Len(DigitsOf(s)) : DigitsOf(s)[i] \in Digits

RECURSIVE Magnitude(_)
Magnitude(ds) ==
    IF ds = <<>> THEN 0
    ELSE 10 * Magnitude(DropLast(ds)) + DigitValue(ds[Len(ds)])

\* a conversion that drops the sign
ParseIntUnsigned(s) == Magnitude(DigitsOf(s))

\* int(user_input)
ParseInt(s) ==
    IF Signed(s) /\ Head(Strip(s)) = "-"
    THEN 0 - Magnitude(DigitsOf(s))
    ELSE Magnitude(DigitsOf(s))

\* seq[:n] for n >= 0
Slice(seq, n) == SubSeq(seq, 1, Min(n, Len(seq)))

\* quiz_size = min(quiz_size, len(word_definitions))
QuizSize(requested, available) == Min(requested, available)

\* a slice that takes one entry too many
PoolOneMore(shuffled, quiz_size) == Slice(shuffled, quiz_size + 1)

\* word_definitions[:quiz_size] of the shuffled entries
Pool(shuffled, quiz_size) == Slice(shuffled, quiz_size)

\* a sentinel check that forgets .strip()
IsSentinelUnstripped(answer) == Lower(answer) \in {TxtExit, TxtMenu}

\* answer.strip().lower() in ['exit', 'menu']
IsSentinel(answer) == Lower(Strip(answer)) \in {TxtExit, TxtMenu}

\* a comparison that minds the letter case
IsCorrectExact(answer, w) == Strip(answer) = w

\* answer.strip().lower() == word.lower()
IsCorrect(answer, w) == Lower(Strip(answer)) = Lower(w)

\* a list of mistakes that grows at its front
MistakesPrepended(incorrect, entry) == <<entry>> \o incorrect

\* incorrect_words.append((word, definition))
Mistakes(incorrect, entry) == Append(incorrect, entry)

\* a retry pool that holds every mistake twice
RetryPoolRepeated(incorrect) == Shuffles(incorrect \o incorrect)

\* random.shuffle(incorrect_words): the retry_words of the retry round
RetryPool(incorrect) == Shuffles(incorrect)

\* an early exit that reports whatever was attempted
ExitRecordsAlways(attempted) == TRUE

\* early exit: if words_attempted, update_stats is called
ExitRecords(attempted) == attempted # {}

\* a completion that reports retry rounds too
CompletionRecordsAlways(retry) == TRUE

\* completion: if not retry_mode, update_stats is called
CompletionRecords(retry) == ~retry

\* datetime.now(): a reading of the clock, never before the last one stored
Dates(st) == {d \in 1..MaxClock : d >= st.last_quiz_date}

\* the locals a session starts with, lines 414 to 417, and its first question
Begin(pool, size) ==
    /\ word_definitions' = pool
    /\ total_words' = size
    /\ incorrect_words' = <<>>
    /\ correct_count' = 0
    /\ words_attempted' = {}
    /\ index' = 1
    /\ pc' = "quiz_answer"
    /\ msg' = NoMsg

\* a return that asks for the size of a new quiz instead of leaving quiz()
QuizRestarts ==
    /\ pc' = "quiz_size"
    /\ depth' = 1

\* quiz() returns, and with it every quiz() frame that called it
QuizReturn ==
    /\ pc' = "menu"
    /\ depth' = 0

\* a new quiz() frame: its locals are not bound yet
Unbound ==
    /\ word_definitions' = <<>>
    /\ total_words' = 0
    /\ index' = 0
    /\ incorrect_words' = <<>>
    /\ correct_count' = 0
    /\ words_attempted' = {}

\* choice == "3": quiz(words)
choose_quiz ==
    /\ pc = "menu"
    /\ Len(stats.quiz_results) < MaxLedger
    /\ retry_mode' = FALSE
    /\ Unbound
    /\ IF words = <<>>
       THEN /\ msg' = Msg("NoWordsToQuiz")
            /\ QuizReturn
       ELSE /\ msg' = NoMsg
            /\ pc' = "quiz_size"
            /\ depth' = 1
    /\ UNCHANGED <<store_vars, csv, stats, add_vars, view_vars>>

\* user_input = input("Enter the number of words ...")
quiz_size_input(u) ==
    /\ pc = "quiz_size"
    /\ IF Lower(u) \in {TxtExit, TxtMenu}
       THEN /\ msg' = Msg("Returning")
            /\ QuizReturn
            /\ UNCHANGED session_vars
       ELSE IF Strip(u) # <<>> /\ ~IsInt(u)
       THEN /\ msg' = Msg("InvalidNumber")
            /\ UNCHANGED <<pc, depth, session_vars>>
       ELSE IF Strip(u) # <<>> /\ ParseInt(u) <= 0
       THEN /\ msg' = Msg("NotPositive")
            /\ UNCHANGED <<pc, depth, session_vars>>
       ELSE LET requested == IF Strip(u) = <<>> THEN DefaultQuizSize
                             ELSE ParseInt(u)
                quiz_size == QuizSize(requested, Len(words))
            IN  /\ \E shuffled \in Shuffles(words) :
                       Begin(Pool(shuffled, quiz_size), quiz_size)
                /\ UNCHANGED depth
    /\ UNCHANGED <<store_vars, csv, stats, add_vars, view_vars, retry_mode>>

\* answer = input("Your answer ..."), to the next prompt
quiz_answer(answer) ==
    /\ pc = "quiz_answer"
    /\ IF IsSentinel(answer)
       THEN /\ IF ExitRecords(words_attempted)
               THEN \E date \in Dates(stats) :
                        stats' = update_stats(stats, date, correct_count,
                                              Cardinality(words_attempted),
                                              words_attempted)
               ELSE UNCHANGED stats
            /\ msg' = Msg("EndingEarly")
            /\ QuizReturn
            /\ UNCHANGED session_vars
       ELSE LET entry == word_definitions[index]
                right == IsCorrect(answer, entry[1])
                attempted == words_attempted \cup {entry[1]}
                correct == IF right THEN correct_count + 1 ELSE correct_count
                incorrect == IF right THEN incorrect_words
                             ELSE Mistakes(incorrect_words, entry)
            IN  /\ words_attempted' = attempted
                /\ correct_count' = correct
                /\ incorrect_words' = incorrect
                /\ UNCHANGED <<word_definitions, total_words>>
                /\ IF index < Len(word_definitions)
                   THEN /\ index' = index + 1
                        /\ msg' = Msg(IF right THEN "Correct" ELSE "Incorrect")
                        /\ UNCHANGED <<pc, depth, stats>>
                   ELSE /\ UNCHANGED index
                        /\ msg' = Msg("QuizComplete")
                        /\ IF attempted # {} /\ CompletionRecords(retry_mode)
                           THEN \E date \in Dates(stats) :
                                    stats' = update_stats(stats, date, correct,
                                                          Cardinality(attempted),
                                                          attempted)
                           ELSE UNCHANGED stats
                        /\ IF attempted # {} /\ incorrect # <<>>
                           THEN pc' = "quiz_retry" /\ UNCHANGED depth
                           ELSE QuizReturn
    /\ UNCHANGED <<store_vars, csv, add_vars, view_vars, retry_mode>>

\* retry = input("Would you like to retry ...")
quiz_retry_input(retry) ==
    /\ pc = "quiz_retry"
    /\ IF Lower(retry) = TxtYes
       THEN /\ depth < MaxDepth
            /\ \E shuffled \in RetryPool(incorrect_words) :
                   Begin(shuffled, Len(shuffled))
            /\ retry_mode' = TRUE
            /\ depth' = depth + 1
       ELSE /\ QuizReturn
            /\ UNCHANGED <<msg, retry_mode, session_vars>>
    /\ UNCHANGED <<store_vars, csv, stats, add_vars, view_vars>>

\* choice == "7": view_stats()
choose_stats ==
    /\ pc = "menu"
    /\ pc' = "pause"
    /\ msg' = Msg(IF stats.total_quizzes = 0 THEN "NoStatistics"
                  ELSE "Statistics")
    /\ UNCHANGED <<store_vars, csv, stats, add_vars, view_vars, quiz_vars>>

(***************************************************************************)
(* The quiz session: Quiz Yourself and View Statistics over a store        *)
(* earlier runs left, from the default ledger.                             *)
(***************************************************************************)
\* what is typed at the size prompt
SizeInputs ==
    {<<>>, <<" ">>, <<"1">>, <<" ", "2">>, <<"3">>, <<"0">>, <<"-", "1">>,
     <<"x">>, TxtExit, <<"M", "e", "n", "u">>, <<" ", "e", "x", "i", "t">>}

\* what is typed at the answer prompt
QuizAnswers ==
    {<<"a">>, <<"A", " ">>, <<"b">>, <<"c">>, <<>>, TxtExit,
     <<"E", "x", "i", "t">>, <<" ", "E", "X", "I", "T">>,
     <<"M", "e", "n", "u", " ">>}

\* what is typed at the retry prompt
RetryInputs == {TxtYes, <<"Y", "E", "S">>, <<"n", "o">>, <<" ", "y", "e", "s">>}

QuizStores ==
    { <<>>,
      << <<<<"a">>, <<"x">>>> >>,
      << <<<<"a">>, <<"x">>>>, <<<<"B">>, <<"y">>>> >>,
      << <<<<"a">>, <<"x">>>>, <<<<"B">>, <<"y">>>>, <<<<" ", "c">>, <<"x">>>> >>,
      << <<<<"E", "x", "i", "t">>, <<"x">>>>, <<<<"a">>, <<"y">>>> >> }

InitQuiz == \E doc \in QuizStores : Start(doc, NoFile)

NextQuiz ==
    \/ choose_quiz
    \/ \E u \in SizeInputs : quiz_size_input(u)
    \/ \E answer \in QuizAnswers : quiz_answer(answer)
    \/ \E retry \in RetryInputs : quiz_retry_input(retry)
    \/ choose_stats
    \/ pause_enter

SpecQuiz == InitQuiz /\ [][NextQuiz]_vars

(***************************************************************************)
(* The quiz session with retry rounds without end: past MaxDepth frames    *)
(* the count of the frames stays at MaxDepth, and the user answers every   *)
(* prompt.                                                                 *)
(***************************************************************************)
\* retry = input("Would you like to retry ..."), answered 'yes' in a frame the
\* count no longer tells from the frame it calls
quiz_retry_deeper(retry) ==
    /\ pc = "quiz_retry"
    /\ depth = MaxDepth
    /\ Lower(retry) = TxtYes
    /\ \E shuffled \in RetryPool(incorrect_words) :
           Begin(shuffled, Len(shuffled))
    /\ retry_mode' = TRUE
    /\ UNCHANGED <<store_vars, csv, stats, add_vars, view_vars, depth>>

NextQuizLive ==
    \/ NextQuiz
    \/ \E retry \in RetryInputs : quiz_retry_deeper(retry)

\* input() returns at every prompt: the program goes on whenever it can
SpecQuizLive == InitQuiz /\ [][NextQuizLive]_vars /\ WF_vars(NextQuizLive)

(***************************************************************************)
(* Failures: a file that cannot be written or read, the end of the input,  *)
(* a word document that json.load cannot parse.                            *)
(***************************************************************************)
\* export_words_to_csv(words) when open() or a write raises IOError: the
\* file is as it was when open() raised (written = -1), else it holds the
\* rows written before the failure
export_io_error(written) ==
    /\ pc = "export"
    /\ written <= Len(words)
    /\ csv' = IF written < 0 THEN csv
              ELSE FileOf(SubSeq(ExportRows(words), 1, written))
    /\ msg' = Msg("ErrorWriting")
    /\ pc' = "pause"
    /\ UNCHANGED <<store_vars, stats, add_vars, view_vars, quiz_vars>>

\* the handlers an exception raised while the file is read ends in: except
\* csv.Error, and except Exception (UnicodeDecodeError, PermissionError)
ReadErrors == {"CsvError", "UnexpectedError"}

\* import_words_from_csv() when reading the file raises: the handler prints
\* and the function returns before save_words
import_csv_error(name, error) ==
    /\ pc = "import"
    /\ FileAt(name).exists
    /\ msg' = Msg(error)
    /\ pc' = "pause"
    /\ UNCHANGED <<store_vars, csv, stats, add_vars, view_vars, quiz_vars>>

\* a data/words.json that is not the JSON of a dict: its one entry lacks the
\* definition
Unparsable == << <<<<"{">>>> >>

\* json.load(f) returns
Parses(doc) == \A i \in 1..Len(doc) : Len(doc[i]) = 2

\* main() before its loop: words = load_words(), outside every try
main_start ==
    /\ pc = "start"
    /\ IF Parses(disk)
       THEN /\ words' = load_words(disk)
            /\ pc' = "menu"
            /\ UNCHANGED msg
       ELSE /\ pc' = "crashed"
            /\ msg' = Msg("Traceback")
            /\ UNCHANGED words
    /\ UNCHANGED <<disk, csv, stats, add_vars, view_vars, quiz_vars>>

\* input() raises EOFError at a prompt: at the file-name prompt of the import
\* the function's own except Exception prints and returns to the pause of
\* main(); anywhere else main()'s except Exception prints and waits at its
\* own input("Press Enter to continue...")
end_of_input ==
    /\ pc \in Prompts
    /\ IF pc = "import"
       THEN pc' = "pause" /\ msg' = Msg("UnexpectedError")
       ELSE pc' = "error_pause" /\ msg' = Msg("AnErrorOccurred")
    /\ depth' = 0
    /\ UNCHANGED <<store_vars, csv, stats, add_vars, view_vars, retry_mode,
                   session_vars>>

\* Enter at the prompt of main()'s except Exception handler
error_pause_enter ==
    /\ pc = "error_pause"
    /\ pc' = "menu"
    /\ UNCHANGED <<store_vars, csv, stats, msg, add_vars, view_vars, quiz_vars>>

\* EOFError at the prompt of the handler: raised inside the except clause, it
\* leaves main(), and the try around main() catches KeyboardInterrupt only
error_pause_eof ==
    /\ pc = "error_pause"
    /\ pc' = "crashed"
    /\ msg' = Msg("Traceback")
    /\ UNCHANGED <<store_vars, csv, stats, add_vars, view_vars, quiz_vars>>

\* KeyboardInterrupt at the prompt of the handler: caught around main()
error_pause_interrupt ==
    /\ pc = "error_pause"
    /\ pc' = "exited"
    /\ msg' = Msg("Terminated")
    /\ UNCHANGED <<store_vars, csv, stats, add_vars, view_vars, quiz_vars>>

(***************************************************************************)
(* The run of main() from its first line: from the data directory as it is *)
(* found, Delete Word, Export and Import with the failures above.          *)
(***************************************************************************)
InitMain ==
    /\ pc = "start"
    /\ disk \in StartDocs \cup {Unparsable}
    /\ words = <<>>
    /\ csv \in HandFiles \cup {NoFile}
    /\ stats = DefaultStats
    /\ msg = NoMsg
    /\ word = <<>>
    /\ current_filter = <<>>
    /\ retry_mode = FALSE
    /\ word_definitions = <<>>
    /\ total_words = 0
    /\ index = 0
    /\ incorrect_words = <<>>
    /\ correct_count = 0
    /\ words_attempted = {}
    /\ depth = 0

NextMain ==
    \/ main_start
    \/ choose_delete
    \/ \E w \in DeleteWords : delete_word_word(w)
    \/ choose_export
    \/ export_words_to_csv
    \/ \E written \in -1..MaxStore : export_io_error(written)
    \/ choose_import
    \/ \E name \in FileNames : import_csv(name)
    \/ \E name \in FileNames, error \in ReadErrors : import_csv_error(name, error)
    \/ pause_enter
    \/ choose_invalid
    \/ choose_exit
    \/ interrupt
    \/ end_of_input
    \/ error_pause_enter
    \/ error_pause_eof
    \/ error_pause_interrupt

SpecMain == InitMain /\ [][NextMain]_vars

(***************************************************************************)
(* The claims.                                                             *)
(***************************************************************************)
\* the last result of the ledger
LastResult(st) == st.quiz_results[Len(st.quiz_results)]

\* the ledger st with exactly one more result, of the given score over the
\* given words
Recorded(st, after, correct, attempted) ==
    /\ Len(after.quiz_results) = Len(st.quiz_results) + 1
    /\ SubSeq(after.quiz_results, 1, Len(st.quiz_results)) = st.quiz_results
    /\ after.total_quizzes = st.total_quizzes + 1
    /\ LastResult(after).score = correct
    /\ LastResult(after).total = Cardinality(attempted)
    /\ LastResult(after).words_attempted = attempted

\* C1: whenever control is back at the menu prompt, the in-memory word store
\* and the persisted word document hold the same word-to-definition mapping.
C1_StoreMatchesDocument ==
    pc = "menu" => Mapping(words) = Mapping(disk)

\* C2: in View Words, after each filter input has been processed some stored
\* word starts with the filter (case-insensitively), and an input that
\* produced no match leaves the filter as it was before that input.
C2_FilterAlwaysMatches ==
    [][(pc = "view_words" /\ pc' = "view_words") =>
          /\ AnyMatch(words, current_filter')
          /\ msg'.text = "NoMatch" => current_filter' = current_filter]_vars

\* C3: at the prompt that follows an accepted entry of Add Word, the
\* persisted word document holds that entry.
C3_AddWriteThrough ==
    pc = "add_continue" =>
        /\ Has(disk, word)
        /\ Get(disk, word) = Get(words, word)

\* a store whose words and definitions are non-empty, have no whitespace at
\* either end and hold no carriage return
CleanText(t) == t # <<>> /\ Strip(t) = t /\ \A i \in 1..Len(t) : t[i] # CR
Clean(d) == \A i \in 1..Len(d) : CleanText(d[i][1]) /\ CleanText(d[i][2])

\* C4 as claimed: importing into an empty store the file an export has just
\* written yields the mapping of the exported store, for every store.
C4_RoundTrip ==
    [][(pc = "export" /\ pc' = "pause") =>
          Mapping(import_words_from_csv(<<>>, csv').doc) = Mapping(words)]_vars

\* C4 as amended: importing into an empty store the file an export has just
\* written yields the mapping of the exported store, for every store whose
\* words and definitions are non-empty, have no leading or trailing
\* whitespace and hold no carriage return.
C4_RoundTripClean ==
    [][(pc = "export" /\ pc' = "pause" /\ Clean(words)) =>
          Mapping(import_words_from_csv(<<>>, csv').doc) = Mapping(words)]_vars

\* C4's case: a clean store of two entries was exported, every word was
\* deleted, and the import of the file has put the two entries back.
C4_RoundTripDone ==
    /\ pc = "pause"
    /\ msg.text = "Imported"
    /\ words = <<>>
    /\ Len(disk) = 2
    /\ Clean(disk)
    /\ csv = FileOf(ExportRows(disk))

\* C5: from the default ledger, total_quizzes equals the number of entries of
\* quiz_results, and every change of the ledger adds exactly one to both.
C5_LedgerCounter ==
    /\ [](stats.total_quizzes = Len(stats.quiz_results))
    /\ [][stats' # stats =>
             /\ stats'.total_quizzes = stats.total_quizzes + 1
             /\ Len(stats'.quiz_results) = Len(stats.quiz_results) + 1]_vars

\* C5's case: two results have been recorded.
C5_TwoRecorded == Len(stats.quiz_results) = 2 /\ stats.total_quizzes = 2

\* C6: a sentinel answer that ends a session, top-level or retry, records
\* exactly one result (correct_count, |attempted|, attempted) when something
\* was attempted and leaves the ledger alone when nothing was; no result is
\* ever recorded for zero attempts.
C6_EarlyExitRecords ==
    /\ [][(pc = "quiz_answer" /\ msg'.text = "EndingEarly") =>
             IF words_attempted # {}
             THEN Recorded(stats, stats', correct_count, words_attempted)
             ELSE stats' = stats]_vars
    /\ [](\A i \in 1..Len(stats.quiz_results) :
             /\ stats.quiz_results[i].total >= 1
             /\ stats.quiz_results[i].words_attempted # {})

\* C6's case: a retry round was left by a sentinel after an answer, and its
\* result was recorded after the result of the top-level session.
C6_RetryExitRecorded ==
    /\ pc = "menu"
    /\ msg.text = "EndingEarly"
    /\ retry_mode
    /\ words_attempted # {}
    /\ Len(stats.quiz_results) = 2
    /\ LastResult(stats).words_attempted = words_attempted

\* C7: the answer that completes a top-level session records exactly one
\* result (correct_count, |attempted|) in the step that leads to the retry
\* offer; the answer that completes a retry round, at any depth, and the
\* reply to the retry offer leave the ledger alone.
C7_CompletionRecords ==
    [][/\ (pc = "quiz_answer" /\ msg'.text = "QuizComplete") =>
             IF retry_mode
             THEN stats' = stats
             ELSE Recorded(stats, stats', correct_count', words_attempted')
       /\ pc = "quiz_retry" => stats' = stats]_vars

\* C7's case: a retry round of a retry round has completed with a mistake,
\* and the ledger holds the one result of the top-level session.
C7_NestedRetryCompleted ==
    /\ pc = "quiz_retry"
    /\ retry_mode
    /\ depth = 3
    /\ msg.text = "QuizComplete"
    /\ Len(stats.quiz_results) = 1

\* C8: an answer that is 'exit' or 'menu' after trimming and case-folding
\* ends the session at once: control is back at the menu with no further
\* question and no retry offer, and attempted, mistakes and correct_count are
\* as they were.
C8_SentinelEndsSession ==
    [][\A answer \in QuizAnswers :
          (Lower(Strip(answer)) \in {TxtExit, TxtMenu} /\ quiz_answer(answer)) =>
              /\ pc' = "menu"
              /\ depth' = 0
              /\ UNCHANGED <<words_attempted, incorrect_words, correct_count,
                             index, word_definitions>>]_vars

\* C8's case: a session of three questions was left by a sentinel at its
\* second question, after one wrong answer.
C8_ExitedMidPool ==
    /\ pc = "menu"
    /\ msg.text = "EndingEarly"
    /\ Len(word_definitions) = 3
    /\ index = 2
    /\ Len(incorrect_words) = 1
    /\ Cardinality(words_attempted) = 1

\* C9: an accepted size R (15 for a blank input) over a store of N entries
\* starts a top-level pool of exactly min(R, N) entries, each an entry of the
\* store, no word twice.
C9_PoolSize ==
    [][\A u \in SizeInputs :
          (quiz_size_input(u) /\ pc' = "quiz_answer") =>
              LET R == IF Strip(u) = <<>> THEN 15 ELSE ParseInt(u)
              IN  /\ R >= 1
                  /\ Len(words) >= 1
                  /\ Len(word_definitions') = Min(R, Len(words))
                  /\ \A i \in 1..Len(word_definitions') :
                         word_definitions'[i] \in Mapping(words)
                  /\ IsDict(word_definitions')]_vars

\* C9's case: a pool of two entries was drawn from a store of three.
C9_SampledPool ==
    /\ pc = "quiz_answer"
    /\ ~retry_mode
    /\ index = 1
    /\ Len(words) = 3
    /\ Len(word_definitions) = 2

\* C10: deleting a word that is not in the store reports not-found and
\* leaves the store and the persisted document as they were; deleting a
\* word of the store removes that entry alone and persists the result.
C10_Delete ==
    [][\A w \in DeleteWords :
          delete_word_word(w) =>
              IF w \in Keys(words)
              THEN /\ words' = SelectSeq(words, LAMBDA e : e[1] # w)
                   /\ disk' = words'
                   /\ msg'.text = "Deleted"
              ELSE /\ words' = words
                   /\ disk' = disk
                   /\ msg'.text = "NotFound"]_vars

\* C10's case: a word that is not in the store was asked to be deleted while
\* the store and the persisted document differ.
C10_NotFound ==
    /\ pc = "menu"
    /\ msg.text = "NotFound"
    /\ words # <<>>
    /\ Mapping(disk) # Mapping(words)

\* C11: an Add Word request whose word is the empty string does not change
\* the store, so the empty key is never in the in-memory store or in the
\* persisted document as a result of Add.
C11_AddRejectsEmptyWord ==
    /\ [][\A d \in AddDefinitions :
             (word = <<>> /\ add_word_definition(d)) => words' = words]_vars
    /\ [](~Has(words, <<>>) /\ ~Has(disk, <<>>))

\* C15: immediately after Add Word accepts (w, d) the store maps w to d,
\* whether or not w was there before, and every other key is there as before
\* with the definition it had.
C15_LastWriteWins ==
    [][\A d \in AddDefinitions :
          add_word_definition(d) =>
              /\ Has(words', word)
              /\ Get(words', word) = d
              /\ Keys(words') = Keys(words) \cup {word}
              /\ \A k \in Keys(words) \ {word} : Get(words', k) = Get(words, k)
              /\ IsDict(words')]_vars

\* C15's case: a word that was in a store of two entries has just been added
\* again with another definition than the one the document holds.
C15_Overwritten ==
    /\ pc = "add_continue"
    /\ msg.text = "Added"
    /\ Len(words) = 2
    /\ Has(disk, word)
    /\ Get(disk, word) # Get(words, word)

\* the (word, definition) pair a row carries under the header, both trimmed;
\* a column the row does not reach counts as empty
RowPair(header, row) ==
    <<IF HasField(header, row, TxtWord)
      THEN Strip(FieldOf(header, row, TxtWord)) ELSE <<>>,
      IF HasField(header, row, TxtDefinition)
      THEN Strip(FieldOf(header, row, TxtDefinition)) ELSE <<>> >>

\* the pairs of the rows below the header
RowPairs(rows) == [i \in 1..(Len(rows) - 1) |-> RowPair(rows[1], rows[i + 1])]

\* the pairs whose word and definition are both non-empty
ValidPairs(pairs) == SelectSeq(pairs, LAMBDA p : p[1] # <<>> /\ p[2] # <<>>)

\* the store old overwritten, in order, by the given pairs
RECURSIVE Overwritten(_, _)
Overwritten(old, pairs) ==
    IF pairs = <<>> THEN old
    ELSE Overwritten(Put(old, Head(pairs)[1], Head(pairs)[2]), Tail(pairs))

\* a file that exists and whose header holds both column names
ValidHeader(file) ==
    /\ file.exists
    /\ file.rows # <<>>
    /\ {TxtWord, TxtDefinition} \subseteq
           {file.rows[1][j] : j \in 1..Len(file.rows[1])}

\* C12: an import of any rows under a valid header leaves the persisted store
\* as the old one overwritten, in row order, by every row whose word and
\* definition are non-empty after trimming; importedCount is the number of
\* these rows and newCount the number of keys that were absent before.
C12_ImportMerge ==
    [][\A name \in FileNames :
          (import_csv(name) /\ ValidHeader(FileAt(name))) =>
              LET valid == ValidPairs(RowPairs(ReadRows(FileAt(name).rows)))
              IN  /\ disk' = Overwritten(disk, valid)
                  /\ msg'.n = Len(valid)
                  /\ msg'.m = Cardinality(Keys(disk') \ Keys(disk))
                  /\ msg'.text = IF valid = <<>> THEN "NoValidWords"
                                 ELSE "Imported"]_vars

\* C13: an import that fails (the file is missing or cannot be read, its
\* header lacks a column, a row makes it fail) and an export whose write
\* fails leave the persisted word document and the in-memory store as they
\* were.
C13_FailureChangesNothing ==
    [][(\/ /\ pc = "import"
           /\ msg'.text \in {"FileNotFound", "BadHeader", "CsvError",
                             "UnexpectedError"}
        \/ /\ pc = "export"
           /\ msg'.text = "ErrorWriting") =>
          /\ disk' = disk
          /\ words' = words]_vars

\* C13's case: an import has failed at a row below a valid row, and the word
\* of the valid row is not in the document.
C13_FailedAfterValidRow ==
    /\ pc = "pause"
    /\ msg.text = "UnexpectedError"
    /\ ValidHeader(csv)
    /\ ValidPairs(RowPairs(ReadRows(csv.rows))) # <<>>
    /\ \A i \in 1..Len(ValidPairs(RowPairs(ReadRows(csv.rows)))) :
           ~Has(disk, ValidPairs(RowPairs(ReadRows(csv.rows)))[i][1])

\* C16: the process ends only by the Exit selection or by an interrupt.
C16_EndsOnlyOnExitOrInterrupt ==
    pc \in {"exited", "crashed"} => msg.text \in {"Goodbye", "Terminated"}

\* the highest score among the results of the ledger, 0 when there is none
MaxScore(st) ==
    IF st.quiz_results = <<>> THEN 0
    ELSE CHOOSE m \in {st.quiz_results[i].score : i \in 1..Len(st.quiz_results)} :
             \A i \in 1..Len(st.quiz_results) : st.quiz_results[i].score <= m

\* C14: from the default ledger, words_learned equals the highest score among
\* the results of quiz_results (0 when there is none), and it never decreases.
C14_BestScore ==
    /\ [](stats.words_learned = MaxScore(stats))
    /\ [][stats'.words_learned >= stats.words_learned]_vars

\* C14's case: a second result was recorded with a lower score than the first.
C14_LowerScoreRecorded ==
    /\ Len(stats.quiz_results) = 2
    /\ stats.quiz_results[2].score < stats.quiz_results[1].score

\* the number of answers the session has taken: the loop is at question index
\* while an answer is awaited, and past its last question at the retry offer
Answered == IF pc = "quiz_answer" THEN index - 1 ELSE index

\* C17: in every state of a quiz session, top-level or retry, correct_count
\* plus the number of mistakes equals the number of attempted words, which is
\* the number of non-sentinel answers so far and at most the pool size; the
\* attempted words are the words asked so far, and the mistakes are the
\* wrongly answered entries, each once, in the order they were asked.
C17_SessionAccounting ==
    /\ [](pc \in {"quiz_answer", "quiz_retry"} =>
             /\ correct_count + Len(incorrect_words) = Cardinality(words_attempted)
             /\ Cardinality(words_attempted) = Answered
             /\ 0 <= correct_count
             /\ correct_count <= Cardinality(words_attempted)
             /\ Cardinality(words_attempted) <= Len(word_definitions)
             /\ words_attempted = {word_definitions[i][1] : i \in 1..Answered}
             /\ IsDict(incorrect_words)
             /\ incorrect_words =
                    SelectSeq(SubSeq(word_definitions, 1, Answered),
                              LAMBDA e : e \in Mapping(incorrect_words)))
    /\ [][\A answer \in QuizAnswers :
             (Lower(Strip(answer)) \notin {TxtExit, TxtMenu}
                  /\ quiz_answer(answer)) =>
                 /\ Cardinality(words_attempted') = Cardinality(words_attempted) + 1
                 /\ IF Lower(Strip(answer)) = Lower(word_definitions[index][1])
                    THEN /\ correct_count' = correct_count + 1
                         /\ incorrect_words' = incorrect_words
                    ELSE /\ correct_count' = correct_count
                         /\ incorrect_words' =
                                Append(incorrect_words, word_definitions[index])]_vars

\* C17's case: a retry round over three words has ended with one correct
\* answer and two mistakes.
C17_RetryRoundCounted ==
    /\ pc = "quiz_retry"
    /\ retry_mode
    /\ correct_count = 1
    /\ Len(incorrect_words) = 2
    /\ Cardinality(words_attempted) = 3

\* a new quiz() frame is entered from a quiz() frame
RetryStarts == depth >= 1 /\ depth' = depth + 1

\* s holds the entries of t, each as often as t does
IsPermutation(s, t) ==
    /\ Len(s) = Len(t)
    /\ \A e \in Mapping(s) \cup Mapping(t) :
           Cardinality({i \in 1..Len(s) : s[i] = e}) =
           Cardinality({i \in 1..Len(t) : t[i] = e})

\* C18: a retry round starts only from a completed session with mistakes, on
\* the reply 'yes' in any letter case, and goes straight to its first
\* question; its pool is a permutation of the parent's mistakes, so it is
\* non-empty, holds no word twice, is no larger than the parent's pool and
\* is smaller when the parent had a correct answer.
C18_RetryPool ==
    /\ [][RetryStarts =>
             /\ pc = "quiz_retry"
             /\ msg.text = "QuizComplete"
             /\ Cardinality(words_attempted) = Len(word_definitions)
             /\ incorrect_words # <<>>
             /\ pc' = "quiz_answer"
             /\ retry_mode'
             /\ IsPermutation(word_definitions', incorrect_words)
             /\ Len(word_definitions') >= 1
             /\ IsDict(word_definitions')
             /\ total_words' = Len(incorrect_words)
             /\ Len(word_definitions') <= Len(word_definitions)
             /\ correct_count >= 1 =>
                    Len(word_definitions') < Len(word_definitions)]_vars
    /\ [][(retry_mode' /\ ~retry_mode) => RetryStarts]_vars
    /\ [][\A retry \in RetryInputs :
             quiz_retry_input(retry) => (RetryStarts <=> Lower(retry) = TxtYes)]_vars

\* C18's case: a retry round of two words has started from a session of three
\* words, in another order than the store's.
C18_RetryOfTwoStarted ==
    /\ pc = "quiz_answer"
    /\ retry_mode
    /\ depth = 2
    /\ index = 1
    /\ Len(words) = 3
    /\ Len(word_definitions) = 2
    /\ word_definitions[1] = words[3]
    /\ word_definitions[2] = words[1]

\* size inputs that are zero, negative or not a number, other than the words
\* 'exit' and 'menu' in any letter case
RejectedSizes == {<<"0">>, <<"-", "1">>, <<"x">>, <<" ", "e", "x", "i", "t">>}

\* size inputs that are the word 'exit' or 'menu' in some letter case
SentinelSizes == {TxtExit, <<"M", "e", "n", "u">>}

\* size inputs that ask for more words than any store of the session holds
LargeSizes == {<<>>, <<" ">>}

\* C19 as claimed: a session with an empty store ends at once and leaves the
\* ledger alone; every size that is zero, negative or not a number is asked
\* again without starting the session; a size above the store's is clamped
\* to it; so whenever a question is asked the pool holds between one word
\* and as many words as the store.
C19_ValidPoolAnyText ==
    /\ [](pc = "quiz_answer" =>
             /\ 1 <= Len(word_definitions)
             /\ Len(word_definitions) <= Len(words)
             /\ total_words = Len(word_definitions)
             /\ index \in 1..Len(word_definitions))
    /\ [][(pc = "menu" /\ words = <<>>) =>
             /\ pc' \notin {"quiz_size", "quiz_answer", "quiz_retry"}
             /\ stats' = stats]_vars
    /\ [][\A u \in RejectedSizes \cup SentinelSizes :
             quiz_size_input(u) =>
                 /\ pc' = "quiz_size"
                 /\ UNCHANGED <<word_definitions, index, stats>>]_vars
    /\ [][\A u \in LargeSizes :
             quiz_size_input(u) =>
                 /\ pc' = "quiz_answer"
                 /\ Len(word_definitions') = Len(words)]_vars

\* C19 as amended: a session with an empty store ends at once and leaves the
\* ledger alone; a size that is zero, negative or not a number is asked
\* again without starting the session, except the words 'exit' and 'menu' in
\* any letter case, which end the session without a question and leave the
\* ledger alone; a size above the store's is clamped to it; so whenever a
\* question is asked the pool holds between one word and as many words as
\* the store.
C19_ValidPool ==
    /\ [](pc = "quiz_answer" =>
             /\ 1 <= Len(word_definitions)
             /\ Len(word_definitions) <= Len(words)
             /\ total_words = Len(word_definitions)
             /\ index \in 1..Len(word_definitions))
    /\ [][(pc = "menu" /\ words = <<>>) =>
             /\ pc' \notin {"quiz_size", "quiz_answer", "quiz_retry"}
             /\ stats' = stats]_vars
    /\ [][\A u \in RejectedSizes :
             quiz_size_input(u) =>
                 /\ pc' = "quiz_size"
                 /\ msg'.text \in {"NotPositive", "InvalidNumber"}
                 /\ UNCHANGED <<word_definitions, index, stats>>]_vars
    /\ [][\A u \in SentinelSizes :
             quiz_size_input(u) =>
                 /\ pc' = "menu"
                 /\ UNCHANGED <<word_definitions, index, stats>>]_vars
    /\ [][\A u \in LargeSizes :
             quiz_size_input(u) =>
                 /\ pc' = "quiz_answer"
                 /\ Len(word_definitions') = Len(words)]_vars

\* C19's case: over a store of three words a size that is not positive has
\* been refused and the size is asked again, no pool drawn.
C19_SizeRefused ==
    /\ pc = "quiz_size"
    /\ msg.text = "NotPositive"
    /\ Len(words) = 3
    /\ word_definitions = <<>>

\* C20: every result of the ledger has a total of at least 1, a score between
\* 0 and the total, and a total equal to the number of words attempted.
C20_WellFormedResults ==
    \A i \in 1..Len(stats.quiz_results) :
        LET r == stats.quiz_results[i]
        IN  /\ r.total >= 1
            /\ 0 <= r.score
            /\ r.score <= r.total
            /\ r.total = Cardinality(r.words_attempted)

\* C20's case: the ledger holds a result of one correct answer out of three
\* and, after it, the result of a retry round left after one answer.
C20_TwoResults ==
    /\ Len(stats.quiz_results) = 2
    /\ stats.quiz_results[1].score = 1
    /\ stats.quiz_results[1].total = 3
    /\ stats.quiz_results[2].total = 1

\* a word whose trimmed lower-case form is 'exit' or 'menu'
SentinelWord(w) == Lower(Strip(w)) \in {TxtExit, TxtMenu}

\* the word of the question that waits for its answer
AskedWord == word_definitions[index][1]

\* C22 as claimed: a stored word whose trimmed lower-case form is 'exit' or
\* 'menu' ends the session when it is typed as the answer, and is never
\* counted as correct nor ever among the attempted words; every other stored
\* word without leading or trailing whitespace is counted as correct when it
\* is typed in any letter case.
C22_SentinelWordNeverAttempted ==
    /\ [](\A w \in words_attempted : ~SentinelWord(w))
    /\ [][\A answer \in QuizAnswers :
             (quiz_answer(answer) /\ SentinelWord(AskedWord)) =>
                 correct_count' = correct_count]_vars
    /\ [][\A answer \in QuizAnswers :
             (quiz_answer(answer) /\ ~SentinelWord(AskedWord)
                  /\ Strip(AskedWord) = AskedWord
                  /\ Lower(answer) = Lower(AskedWord)) =>
                 /\ correct_count' = correct_count + 1
                 /\ incorrect_words' = incorrect_words]_vars

\* C22 as amended: a stored word whose trimmed lower-case form is 'exit' or
\* 'menu' ends the session when it is typed as the answer, in any letter
\* case, with nothing counted and nothing added to the attempted words, and
\* no answer is ever counted as correct for it; another answer adds it to
\* the attempted words and to the mistakes.  Every other stored word without
\* leading or trailing whitespace is counted as correct when it is typed in
\* any letter case.
C22_SentinelFirst ==
    /\ [][\A answer \in QuizAnswers :
             (quiz_answer(answer) /\ SentinelWord(AskedWord)) =>
                 /\ correct_count' = correct_count
                 /\ IF Lower(Strip(answer)) = Lower(Strip(AskedWord))
                    THEN /\ pc' = "menu"
                         /\ msg'.text = "EndingEarly"
                         /\ words_attempted' = words_attempted
                         /\ incorrect_words' = incorrect_words
                    ELSE Lower(Strip(answer)) \notin {TxtExit, TxtMenu} =>
                             /\ words_attempted' = words_attempted \cup {AskedWord}
                             /\ incorrect_words' =
                                    Append(incorrect_words, word_definitions[index])]_vars
    /\ [][\A answer \in QuizAnswers :
             (quiz_answer(answer) /\ ~SentinelWord(AskedWord)
                  /\ Strip(AskedWord) = AskedWord
                  /\ Lower(answer) = Lower(AskedWord)) =>
                 /\ correct_count' = correct_count + 1
                 /\ incorrect_words' = incorrect_words]_vars

\* C22's case: after a correct answer to the other word of the store, the
\* word 'Exit' was asked, and typing it has ended the session with one word
\* attempted.
C22_ExitWordTyped ==
    /\ pc = "menu"
    /\ msg.text = "EndingEarly"
    /\ index = 2
    /\ word_definitions[2][1] = <<"E", "x", "i", "t">>
    /\ correct_count = 1
    /\ words_attempted = {word_definitions[1][1]}

\* a quiz run is under way
InQuiz == pc \in {"quiz_size", "quiz_answer", "quiz_retry"}

\* a retry round starts: the round before it had a mistake and the reply to
\* the retry offer was 'yes'
RetryRound == pc = "quiz_retry" /\ pc' = "quiz_answer"

\* the size prompt is asked again
SizeAskedAgain == pc = "quiz_size" /\ pc' = "quiz_size"

\* a session asks its questions one after the other, never more than its
\* pool holds
AtMostPoolSizeQuestions ==
    /\ [](pc = "quiz_answer" => index <= Len(word_definitions))
    /\ [][(pc = "quiz_answer" /\ pc' = "quiz_answer") =>
             /\ index' = index + 1
             /\ word_definitions' = word_definitions]_vars

\* C21 as claimed: a session asks at most as many questions as its pool
\* holds, and every quiz run is back at the menu at some time, unless retry
\* rounds start again and again for ever.
C21_RunReturns ==
    /\ AtMostPoolSizeQuestions
    /\ <>[][~RetryRound]_vars => (InQuiz ~> pc = "menu")

\* C21 as amended: a session asks at most as many questions as its pool
\* holds, and every quiz run is back at the menu at some time, unless retry
\* rounds start again and again for ever or the size is refused and asked
\* again for ever.
C21_RunReturnsOnceSized ==
    /\ AtMostPoolSizeQuestions
    /\ (<>[][~RetryRound]_vars /\ <>[][~SizeAskedAgain]_vars) =>
           (InQuiz ~> pc = "menu")

\* C21's case: over a store of three words a retry round of one word has
\* been completed without a mistake and control is back at the menu.
C21_DeepRetryReturned ==
    /\ pc = "menu"
    /\ retry_mode
    /\ msg.text = "QuizComplete"
    /\ incorrect_words = <<>>
    /\ Len(word_definitions) = 1
    /\ Len(words) = 3

====
